---- MODULE Spec2Model ----
(***************************************************************************)
(* Model of 2l_app.py: the "2l Filing Extractor".  A text is a sequence of *)
(* one-character strings, so that prefix tests, stripping, splitting and   *)
(* the regular-expression searches are computed character by character as  *)
(* the Python code computes them.                                          *)
(***************************************************************************)
EXTENDS Integers, Sequences, FiniteSets, TLC

VARIABLES
    df_links,     \* the uploaded table: the sequence of its 'link' cells
    pc,           \* position of the "Run Extraction" script
    i,            \* index of the row in progress (1-based; the code's i+1)
    link,         \* row['link'] of the row in progress
    text,         \* result of fetch_clean_text(link)
    meta,         \* [date, company, sector, symbol, ann_type] of the row
    gpt_output,   \* result of generate_2l_format(text)
    values,       \* result of parse_2l(gpt_output)
    output_data,  \* the rows collected so far
    progress,     \* numerator of the progress bar; its value is progress/len(df_links)
    log,          \* history: the operations performed, as <<operation, row>>
    phase,        \* position of a single function call: "args" or "returned"
    args,         \* the arguments of that call
    ret           \* its result

vars == <<df_links, pc, i, link, text, meta, gpt_output, values, output_data,
          progress, log, phase, args, ret>>

runVars == <<df_links, pc, i, link, text, meta, gpt_output, values, output_data,
             progress, log>>

callVars == <<phase, args, ret>>

----------------------------------------------------------------------------
(* Python str primitives *)

UPPER == <<"A","B","C","D","E","F","G","H","I","J","K","L","M",
           "N","O","P","Q","R","S","T","U","V","W","X","Y","Z">>

LOWER == <<"a","b","c","d","e","f","g","h","i","j","k","l","m",
           "n","o","p","q","r","s","t","u","v","w","x","y","z">>

IsUpper(c) == c \in {"A","B","C","D","E","F","G","H","I","J","K","L","M",
                     "N","O","P","Q","R","S","T","U","V","W","X","Y","Z"}

IsLower(c) == c \in {"a","b","c","d","e","f","g","h","i","j","k","l","m",
                     "n","o","p","q","r","s","t","u","v","w","x","y","z"}

IsDigit(c) == c \in {"0","1","2","3","4","5","6","7","8","9"}

IsSpace(c) == c \in {" ", "\t", "\n", "\r", "\f"}

LowerChar(c) == IF IsUpper(c) THEN LOWER[CHOOSE k \in 1..26 : UPPER[k] = c] ELSE c

\* s.lower()
lower(s) == [k \in 1..Len(s) |-> LowerChar(s[k])]

\* s[k:k+len(p)] == p, for a 1-based k
MatchAt(s, p, k) == k >= 1 /\ k + Len(p) - 1 <= Len(s) /\ SubSeq(s, k, k + Len(p) - 1) = p

\* s.startswith(p)
startswith(s, p) == MatchAt(s, p, 1)

\* s.endswith(p)
endswith(s, p) == MatchAt(s, p, Len(s) - Len(p) + 1)

\* p in s
contains(s, p) == \E k \in 1..(Len(s) + 1) : MatchAt(s, p, k)

\* s[:n]
slice(s, n) == SubSeq(s, 1, IF Len(s) < n THEN Len(s) ELSE n)

\* s.strip()
strip(s) ==
    LET keep == {k \in 1..Len(s) : ~IsSpace(s[k])}
    IN  IF keep = {} THEN <<>>
        ELSE SubSeq(s, CHOOSE k \in keep : \A m \in keep : k <= m,
                       CHOOSE k \in keep : \A m \in keep : k >= m)

\* s.split("\n"): the pieces between newlines, empty pieces kept
RECURSIVE split(_)
split(s) ==
    IF \A k \in 1..Len(s) : s[k] # "\n" THEN <<s>>
    ELSE LET p == CHOOSE k \in 1..Len(s) : s[k] = "\n" /\ \A m \in 1..(k-1) : s[m] # "\n"
         IN  <<SubSeq(s, 1, p - 1)>> \o split(SubSeq(s, p + 1, Len(s)))

\* s.partition(".")[2]: what follows the first ".", empty when there is none
partition(s) ==
    IF \A k \in 1..Len(s) : s[k] # "." THEN <<>>
    ELSE LET p == CHOOSE k \in 1..Len(s) : s[k] = "." /\ \A m \in 1..(k-1) : s[m] # "."
         IN  SubSeq(s, p + 1, Len(s))

RECURSIVE Concat(_)
Concat(ss) == IF ss = <<>> THEN <<>> ELSE Head(ss) \o Concat(Tail(ss))

----------------------------------------------------------------------------
(* parse_2l *)

NumberedPrefix(k) == <<(<<"1","2","3","4","5","6">>)[k], ".">>

\* the chain testing "k." anywhere in the line instead of at its start
ParseLine_Contains(vals, raw) ==
    LET line == strip(raw)
        hit  == {k \in 1..6 : contains(line, NumberedPrefix(k))}
    IN  IF hit = {} THEN vals
        ELSE LET k == CHOOSE k \in hit : \A m \in hit : k <= m
             IN  [vals EXCEPT ![k] = strip(partition(line))]

\* one pass of the loop body: the if/elif chain on the stripped line
ParseLine(vals, raw) ==
    LET line == strip(raw)
        hit  == {k \in 1..6 : startswith(line, NumberedPrefix(k))}
    IN  IF hit = {} THEN vals
        ELSE LET k == CHOOSE k \in hit : \A m \in hit : k <= m
             IN  [vals EXCEPT ![k] = strip(partition(line))]

RECURSIVE ParseLines(_, _)
ParseLines(vals, lines) ==
    IF lines = <<>> THEN vals
    ELSE ParseLines(ParseLine(vals, Head(lines)), Tail(lines))

parse_2l(response) == ParseLines(<<<<>>, <<>>, <<>>, <<>>, <<>>, <<>>>>, split(response))

\* the lines of a response whose stripped form starts with "k."
LinesFor(response, k) ==
    LET lines == split(response)
    IN  {j \in 1..Len(lines) : startswith(strip(lines[j]), NumberedPrefix(k))}

----------------------------------------------------------------------------
(* fetch_clean_text *)

MaxText == 4000

STR_Error == <<"E","r","r","o","r">>

STR_NoPdfText == <<"E","r","r","o","r",":"," ","N","o"," ","t","e","x","t"," ","f","o","u","n","d"," ","i","n"," ","P","D","F">>

STR_ErrorFetching == <<"E","r","r","o","r"," ","f","e","t","c","h","i","n","g"," ">>

STR_Colon == <<":"," ">>

STR_DotPdf == <<".","p","d","f">>

STR_NoLower == <<"'","f","l","o","a","t","'"," ","o","b","j","e","c","t"," ","h","a","s"," ","n","o"," ","a","t","t","r","i","b","u","t","e"," ","'","l","o","w","e","r","'">>

\* a cell of the 'link' column: a str, or the float NaN pandas gives an empty cell
StrCell(s) == [kind |-> "str", s |-> s]

NaNCell == [kind |-> "float", s |-> <<"n","a","n">>]

\* the body of the try block.  env.fail names the call that raises (if any):
\* "get" requests.get, "write" writing temp.pdf, "open" fitz.open, "read"
\* page.get_text, "parse" BeautifulSoup / get_text; env.pages are the page
\* texts of the PDF and env.html the text BeautifulSoup extracts.
TryBody(url, env) ==
    IF url.kind # "str"
    THEN [exc |-> "lower", msg |-> STR_NoLower, val |-> <<>>]
    ELSE IF endswith(lower(url.s), STR_DotPdf)
    THEN IF env.fail \in {"get", "write", "open", "read"}
         THEN [exc |-> env.fail, msg |-> env.msg, val |-> <<>>]
         ELSE LET pdftext == Concat(env.pages)
              IN  [exc |-> "none", msg |-> <<>>,
                   val |-> IF pdftext # <<>> THEN slice(pdftext, MaxText) ELSE STR_NoPdfText]
    ELSE IF env.fail \in {"get", "parse"}
         THEN [exc |-> env.fail, msg |-> env.msg, val |-> <<>>]
         ELSE [exc |-> "none", msg |-> <<>>, val |-> slice(env.html, MaxText)]

\* a handler that catches only the exceptions of requests.get
Caught_OnlyRequests(step) == step = "get"

\* except Exception: whichever call of the try block raised, the handler catches it
Caught(step) == TRUE

fetch_clean_text(url, env) ==
    LET b == TryBody(url, env)
    IN  IF b.exc = "none" THEN [raised |-> FALSE, value |-> b.val]
        ELSE IF Caught(b.exc)
        THEN [raised |-> FALSE, value |-> STR_ErrorFetching \o url.s \o STR_Colon \o b.msg]
        ELSE [raised |-> TRUE, value |-> <<>>]

----------------------------------------------------------------------------
(* generate_2l_format *)

PromptHead == <<
    "\n","Y","o","u"," ","a","r","e"," ","a","n"," ","e","x","p","e","r","t"," ","e","q","u",
    "i","t","y"," ","r","e","s","e","a","r","c","h"," ","a","n","a","l","y","s","t","."," ","G",
    "i","v","e","n"," ","t","h","e"," ","f","o","l","l","o","w","i","n","g"," ","c","o","n","t",
    "e","n","t"," ","f","r","o","m"," ","a"," ","w","e","b"," ","p","a","g","e"," ","o","r"," ",
    "P","D","F",","," ","e","x","t","r","a","c","t"," ","t","h","e"," ","i","n","f","o","r","m",
    "a","t","i","o","n"," ","a","n","d"," ","p","r","e","s","e","n","t"," ","i","t"," ","i","n",
    " ","t","h","i","s"," ","c","u","s","t","o","m"," ","f","o","r","m","a","t"," ","c","a","l",
    "l","e","d"," ","'","2","l","'",":","\n","\n","1","."," ","K","e","y"," ","p","o","i","n",
    "t","e","r","s"," ","a","n","d"," ","v","e","r","y"," ","i","m","p","o","r","t","a","n","t",
    "\n","2","."," ","S","u","m","m","a","r","i","z","e"," ","t","h","i","s"," ","(","i","f",
    " ","p","o","s","s","i","b","l","e",","," ","a","d","d"," ","%"," ","w","i","t","h"," ","t",
    "h","i","s",")","\n","3","."," ","A"," ","2","-","3"," ","l","i","n","e"," ","f","i","n",
    "a","l"," ","s","u","m","m","a","r","y"," ","(","i","f"," ","p","o","s","s","i","b","l","e",
    ","," ","a","d","d"," ","%"," ","w","i","t","h"," ","t","h","i","s",")","\n","4","."," ",
    "E","x","p","l","a","i","n"," ","t","o"," ","a"," ","5","-","y","e","a","r","-","o","l","d",
    "\n","5","."," ","I","n"," ","o","n","e"," ","w","o","r","d"," ","(","a"," ","p","r","o",
    "p","e","r"," ","h","e","a","d","i","n","g"," ","w","i","t","h"," ","p","r","o","c","e","s",
    "s",")","\n","6","."," ","I","s"," ","i","t"," ","g","o","o","d"," ","o","r"," ","b","a",
    "d"," ","f","o","r"," ","t","h","e"," ","c","o","m","p","a","n","y"," ","(","i","n"," ","2",
    " ","l","i","n","e","s",")","\n","\n","O","n","l","y"," ","o","u","t","p","u","t"," ","i",
    "n"," ","s","t","r","u","c","t","u","r","e","d"," ","f","o","r","m","a","t","."," ","D","o",
    " ","n","o","t"," ","e","x","p","l","a","i","n",".","\n","\n","H","e","r","e"," ","i","s",
    " ","t","h","e"," ","c","o","n","t","e","n","t",":","\n">>

STR_ErrorColon == <<"E","r","r","o","r",":"," ">>

\* the f-string of lines 45-59
Prompt(t) == PromptHead \o t \o <<"\n">>

\* the exception's message returned without the "Error: " in front
generate_2l_format_BareMessage(t, llm) ==
    IF llm.raise THEN llm.msg ELSE llm.content

\* llm is the outcome of openai.ChatCompletion.create on the prompt: it raises
\* (llm.raise, with str(e) = llm.msg) or answers llm.content
generate_2l_format(t, llm) ==
    IF llm.raise THEN STR_ErrorColon \o llm.msg ELSE llm.content

----------------------------------------------------------------------------
(* Metadata extraction *)

STR_Unknown == <<"U","n","k","n","o","w","n">>

STR_General == <<"G","e","n","e","r","a","l">>

Largest(S) == CHOOSE k \in S : \A m \in S : k >= m

Smallest(S) == CHOOSE k \in S : \A m \in S : k <= m

\* the length of the longest run of [A-Z], of [a-z], of [:\s], starting at s[p]
RECURSIVE UpperRun(_, _)
UpperRun(s, p) == IF p >= 1 /\ p <= Len(s) /\ IsUpper(s[p]) THEN 1 + UpperRun(s, p + 1) ELSE 0

RECURSIVE LowerRun(_, _)
LowerRun(s, p) == IF p >= 1 /\ p <= Len(s) /\ IsLower(s[p]) THEN 1 + LowerRun(s, p + 1) ELSE 0

RECURSIVE SepRun(_, _)
SepRun(s, p) ==
    IF p >= 1 /\ p <= Len(s) /\ (s[p] = ":" \/ IsSpace(s[p])) THEN 1 + SepRun(s, p + 1) ELSE 0

\* [A-Z][a-z]+ at s[p]: the position of its last character, 0 when it does not match
WordEnd(s, p) ==
    IF p >= 1 /\ p <= Len(s) /\ IsUpper(s[p]) /\ LowerRun(s, p + 1) >= 1
    THEN p + LowerRun(s, p + 1) ELSE 0

CompanySuffixes == {<<"L","i","m","i","t","e","d">>,
                    <<"L","t","d">>,
                    <<"I","n","d","u","s","t","r","i","e","s">>,
                    <<"C","o","r","p","o","r","a","t","i","o","n">>}

\* " (?:Limited|Ltd|Industries|Corporation)" at s[q]: its length, 0 when it does not match
SuffixLen(s, q) ==
    LET hit == {x \in CompanySuffixes : MatchAt(s, <<" ">> \o x, q)}
    IN  IF hit = {} THEN 0 ELSE 1 + Len(CHOOSE x \in hit : TRUE)

\* the ends of [A-Z][a-z]+(?: [A-Z][a-z]+)* taken from the word ending at e
RECURSIVE WordChain(_, _)
WordChain(s, e) ==
    IF e + 1 <= Len(s) /\ s[e + 1] = " " /\ WordEnd(s, e + 2) # 0
    THEN {e} \cup WordChain(s, WordEnd(s, e + 2))
    ELSE {e}

\* the end of the match of the company pattern starting at s[p], 0 when there is none
CompanyEnd(s, p) ==
    IF WordEnd(s, p) = 0 THEN 0
    ELSE LET good == {e \in WordChain(s, WordEnd(s, p)) : SuffixLen(s, e + 1) > 0}
         IN  IF good = {} THEN 0 ELSE Largest(good) + SuffixLen(s, Largest(good) + 1)

extract_company(t) ==
    LET starts == {p \in 1..Len(t) : CompanyEnd(t, p) # 0}
    IN  IF starts = {} THEN STR_Unknown
        ELSE SubSeq(t, Smallest(starts), CompanyEnd(t, Smallest(starts)))

SectorKeywords == <<
    <<<<"P","h","a","r","m","a">>,
      <<"H","e","a","l","t","h","c","a","r","e">>>>,
    <<<<"C","h","e","m","i","c","a","l">>,
      <<"S","p","e","c","i","a","l","t","y"," ","C","h","e","m","i","c","a","l","s">>>>,
    <<<<"B","a","n","k">>,
      <<"F","i","n","a","n","c","i","a","l","s">>>>,
    <<<<"P","o","w","e","r">>,
      <<"E","n","e","r","g","y">>>>,
    <<<<"S","t","e","e","l">>,
      <<"M","e","t","a","l","s">>>>,
    <<<<"A","u","t","o">>,
      <<"A","u","t","o","m","o","b","i","l","e">>>>,
    <<<<"I","T">>,
      <<"T","e","c","h","n","o","l","o","g","y">>>>,
    <<<<"S","o","f","t","w","a","r","e">>,
      <<"T","e","c","h","n","o","l","o","g","y">>>>,
    <<<<"R","e","t","a","i","l">>,
      <<"C","o","n","s","u","m","e","r">>>>,
    <<<<"F","M","C","G">>,
      <<"C","o","n","s","u","m","e","r"," ","S","t","a","p","l","e","s">>>>
>>

RECURSIVE FirstKeyword(_, _, _)
FirstKeyword(table, hay, default) ==
    IF table = <<>> THEN default
    ELSE IF contains(hay, Head(table)[1]) THEN Head(table)[2]
    ELSE FirstKeyword(Tail(table), hay, default)

LowerKeys(table) == [k \in 1..Len(table) |-> <<lower(table[k][1]), table[k][2]>>]

guess_sector(t) == FirstKeyword(LowerKeys(SectorKeywords), lower(t), STR_Unknown)

AnnouncementKeywords == <<
    <<<<"e","x","p","a","n","s","i","o","n">>,
      <<"E","x","p","a","n","s","i","o","n">>>>,
    <<<<"c","a","p","e","x">>,
      <<"C","a","p","e","x">>>>,
    <<<<"d","i","v","i","d","e","n","d">>,
      <<"D","i","v","i","d","e","n","d">>>>,
    <<<<"m","e","r","g","e","r">>,
      <<"M","e","r","g","e","r","/","A","c","q","u","i","s","i","t","i","o","n">>>>,
    <<<<"a","c","q","u","i","s","i","t","i","o","n">>,
      <<"M","e","r","g","e","r","/","A","c","q","u","i","s","i","t","i","o","n">>>>,
    <<<<"o","r","d","e","r">>,
      <<"O","r","d","e","r"," ","W","i","n">>>>,
    <<<<"c","o","n","t","r","a","c","t">>,
      <<"O","r","d","e","r"," ","W","i","n">>>>,
    <<<<"p","l","a","n","t">>,
      <<"C","a","p","a","c","i","t","y","/","I","n","f","r","a">>>>,
    <<<<"r","e","s","u","l","t">>,
      <<"F","i","n","a","n","c","i","a","l"," ","R","e","s","u","l","t">>>>,
    <<<<"p","r","o","f","i","t">>,
      <<"F","i","n","a","n","c","i","a","l"," ","R","e","s","u","l","t">>>>,
    <<<<"l","o","s","s">>,
      <<"F","i","n","a","n","c","i","a","l"," ","R","e","s","u","l","t">>>>,
    <<<<"b","o","n","u","s">>,
      <<"B","o","n","u","s","/","S","p","l","i","t">>>>,
    <<<<"b","u","y","b","a","c","k">>,
      <<"B","u","y","b","a","c","k">>>>,
    <<<<"j","o","i","n","t"," ","v","e","n","t","u","r","e">>,
      <<"J","V","/","P","a","r","t","n","e","r","s","h","i","p">>>>
>>

detect_announcement_type(t) == FirstKeyword(AnnouncementKeywords, lower(t), STR_General)

MaxSymbol == 10

STR_Companies == <<"/","c","o","m","p","a","n","i","e","s","/">>

STR_BSE == <<"B","S","E">>

AtMost(n, m) == IF n < m THEN n ELSE m

\* re.search(r'/([A-Z]{1,10})_', url): group 1, <<>> when there is no match
SymbolBeforeUnderscore(url) ==
    LET at(p) == /\ url[p] = "/"
                 /\ UpperRun(url, p + 1) \in 1..MaxSymbol
                 /\ MatchAt(url, <<"_">>, p + 1 + UpperRun(url, p + 1))
        ps == {p \in 1..Len(url) : at(p)}
    IN  IF ps = {} THEN <<>>
        ELSE SubSeq(url, Smallest(ps) + 1, Smallest(ps) + UpperRun(url, Smallest(ps) + 1))

\* re.search(r'/companies/([A-Z]{1,10})', url)
SymbolAfterCompanies(url) ==
    LET n == Len(STR_Companies)
        ps == {p \in 1..Len(url) : MatchAt(url, STR_Companies, p) /\ UpperRun(url, p + n) >= 1}
    IN  IF ps = {} THEN <<>>
        ELSE SubSeq(url, Smallest(ps) + n,
                    Smallest(ps) + n - 1 + AtMost(UpperRun(url, Smallest(ps) + n), MaxSymbol))

\* re.search(r'BSE[:\s]+([A-Z]{1,10})', text)
SymbolAfterBSE(t) ==
    LET from(p) == p + 3 + SepRun(t, p + 3)
        ps == {p \in 1..Len(t) : /\ MatchAt(t, STR_BSE, p)
                                 /\ SepRun(t, p + 3) >= 1
                                 /\ UpperRun(t, from(p)) >= 1}
    IN  IF ps = {} THEN <<>>
        ELSE SubSeq(t, from(Smallest(ps)),
                    from(Smallest(ps)) - 1 + AtMost(UpperRun(t, from(Smallest(ps))), MaxSymbol))

\* the text consulted before the URL
extract_symbol_TextFirst(url, t) ==
    IF SymbolAfterBSE(t) # <<>> THEN SymbolAfterBSE(t)
    ELSE IF SymbolBeforeUnderscore(url) # <<>> THEN SymbolBeforeUnderscore(url)
    ELSE IF SymbolAfterCompanies(url) # <<>> THEN SymbolAfterCompanies(url)
    ELSE STR_Unknown

extract_symbol(url, t) ==
    IF SymbolBeforeUnderscore(url) # <<>> THEN SymbolBeforeUnderscore(url)
    ELSE IF SymbolAfterCompanies(url) # <<>> THEN SymbolAfterCompanies(url)
    ELSE IF SymbolAfterBSE(t) # <<>> THEN SymbolAfterBSE(t)
    ELSE STR_Unknown

Digits(s, p, n) == p >= 1 /\ p + n - 1 <= Len(s) /\ \A k \in p..(p + n - 1) : IsDigit(s[k])

\* [-/]? at s[p]: the position after it
SkipSep(s, p) == IF p <= Len(s) /\ s[p] \in {"-", "/"} THEN p + 1 ELSE p

\* re.search(r'(\d{4})[-/]?(\d{2})[-/]?(\d{2})', url); today is datetime.today()
\* formatted "%Y-%m-%d"
extract_date_from_url(url, today) ==
    LET mo(p) == SkipSep(url, p + 4)
        dy(p) == SkipSep(url, mo(p) + 2)
        ps == {p \in 1..Len(url) : Digits(url, p, 4) /\ Digits(url, mo(p), 2) /\ Digits(url, dy(p), 2)}
    IN  IF ps = {} THEN today
        ELSE LET p == Smallest(ps)
             IN  SubSeq(url, p, p + 3) \o <<"-">> \o SubSeq(url, mo(p), mo(p) + 1)
                 \o <<"-">> \o SubSeq(url, dy(p), dy(p) + 1)

----------------------------------------------------------------------------
(* The "Run Extraction" script, lines 158-190 *)

MaxRows == 2

Columns == <<"Link", "Symbol", "Company", "Sector", "Date", "Announcement Type",
             "Key Pointers", "Summary", "Final Summary",
             "Explain Like 5", "One Word", "Good/Bad">>

\* the cells an uploaded 'link' column is made of
URL_Pdf == <<"/","f","/","A","B","C","_","2","0","2","4","0","1","3","1",".","P","D","F">>

URL_Company == <<"/","c","o","m","p","a","n","i","e","s","/","X","Y">>

URL_Page == <<"/","n">>

LinkCells == {StrCell(URL_Pdf), StrCell(URL_Company), StrCell(URL_Page), NaNCell}

TXT_Filing == <<"T","a","t","a"," ","S","t","e","e","l"," ","L","t","d"," ","B","S","E",":"," ","T","S","L"," ","w","i","n","s"," ","o","r","d","e","r">>

TXT_NotFound == <<"E","r","r","o","r"," ","4","0","4">>

TXT_Erratum == <<"E","r","r","o","r","s"," ","f","i","x","e","d">>

\* what the network and the parsers do for one fetch
RunEnvs == {
    [fail |-> "get", msg |-> <<"t","i","m","e","d"," ","o","u","t">>, pages |-> <<>>, html |-> <<>>],
    [fail |-> "none", msg |-> <<>>, pages |-> <<>>, html |-> TXT_NotFound],
    [fail |-> "none", msg |-> <<>>, pages |-> <<SubSeq(TXT_Filing, 1, 15), SubSeq(TXT_Filing, 16, Len(TXT_Filing))>>,
     html |-> TXT_Filing],
    [fail |-> "none", msg |-> <<>>, pages |-> <<TXT_Erratum>>, html |-> <<>>]}

\* what the LLM service does for one call
LLMOutcomes == {
    [raise |-> TRUE, msg |-> <<"r","a","t","e"," ","l","i","m","i","t">>, content |-> <<>>],
    [raise |-> TRUE, msg |-> <<"b","a","d","\n","2","."," ","r","e","t","r","y">>, content |-> <<>>],
    [raise |-> FALSE, msg |-> <<>>, content |-> <<"1","."," ","k","\n","2","."," ","s","\n","3","."," ","f","\n"," ","4","."," ","e","\n","5",".","o","\n","6","."," ","g"," ">>]}

Todays == {<<"2","0","2","6","-","1","1","-","0","6">>}

NoMeta == [date |-> <<>>, company |-> <<>>, sector |-> <<>>, symbol |-> <<>>, ann_type |-> <<>>]

CallIdle ==
    /\ phase = "none"
    /\ args = <<>>
    /\ ret = <<>>

\* the state when a table with a 'link' column is uploaded and the button is shown
Init ==
    /\ df_links \in UNION {[1..n -> LinkCells] : n \in 0..MaxRows}
    /\ pc = "idle"
    /\ i = 0
    /\ link = <<>>
    /\ text = <<>>
    /\ meta = NoMeta
    /\ gpt_output = <<>>
    /\ values = <<>>
    /\ output_data = <<>>
    /\ progress = 0
    /\ log = <<>>
    /\ CallIdle

Logged(op, arg, res) == log' = Append(log, [op |-> op, row |-> i, arg |-> arg, res |-> res])

\* lines 158-161: the button is pressed
Click ==
    /\ pc = "idle"
    /\ output_data' = <<>>
    /\ progress' = 0
    /\ pc' = "loop"
    /\ UNCHANGED <<df_links, i, link, text, meta, gpt_output, values, log, callVars>>

\* the next row taken while the current one still waits for its LLM answer
NextRow_Prefetch ==
    /\ pc \in {"loop", "llm"}
    /\ i < Len(df_links)
    /\ i' = i + 1
    /\ link' = df_links[i + 1]
    /\ pc' = "fetch"
    /\ UNCHANGED <<df_links, text, meta, gpt_output, values, output_data, progress, log, callVars>>

\* lines 163-165: the for statement takes the next row of the table
NextRow ==
    /\ pc = "loop"
    /\ i < Len(df_links)
    /\ i' = i + 1
    /\ link' = df_links[i + 1]
    /\ pc' = "fetch"
    /\ UNCHANGED <<df_links, text, meta, gpt_output, values, output_data, progress, log, callVars>>

\* line 166.  The history keeps what the call returned and whether that is text
\* of the document (no call raised and the PDF had text) or an error string.
Fetch ==
    /\ pc = "fetch"
    /\ \E env \in RunEnvs :
          LET r == fetch_clean_text(link, env)
          IN  /\ pc' = IF r.raised THEN "crashed" ELSE "check"
              /\ text' = IF r.raised THEN text ELSE r.value
              /\ Logged("fetch", link, [raised |-> r.raised, value |-> r.value,
                                        extracted |-> /\ TryBody(link, env).exc = "none"
                                                      /\ \/ r.value # STR_NoPdfText
                                                         \/ Concat(env.pages) # <<>>])
    /\ UNCHANGED <<df_links, i, link, meta, gpt_output, values, output_data, progress, callVars>>

\* an error row with one "Error" too few
ErrorRowOf_FiveErrors(l) ==
    <<l, STR_Unknown, STR_Unknown, STR_Unknown, STR_Error, STR_Error>>
    \o [k \in 1..5 |-> STR_Error]

\* an error row whose date and announcement type are "Unknown" like the rest
ErrorRowOf_AllUnknown(l) ==
    <<l, STR_Unknown, STR_Unknown, STR_Unknown, STR_Unknown, STR_Unknown>>
    \o [k \in 1..6 |-> STR_Error]

\* line 169: the row of a link whose text starts with "Error"
ErrorRowOf(l) ==
    <<l, STR_Unknown, STR_Unknown, STR_Unknown, STR_Error, STR_Error>>
    \o [k \in 1..6 |-> STR_Error]

\* lines 168-170
ErrorRow ==
    /\ pc = "check"
    /\ startswith(text, STR_Error)
    /\ output_data' = Append(output_data, ErrorRowOf(link))
    /\ Logged("append", ErrorRowOf(link), <<>>)
    /\ pc' = "loop"
    /\ UNCHANGED <<df_links, i, link, text, meta, gpt_output, values, progress, callVars>>

\* lines 168 (the test fails) and 172
ExtractDate ==
    /\ pc = "check"
    /\ ~startswith(text, STR_Error)
    /\ \E today \in Todays :
          LET date == extract_date_from_url(link.s, today)
          IN  /\ meta' = [meta EXCEPT !.date = date]
              /\ Logged("date", link.s, date)
    /\ pc' = "company"
    /\ UNCHANGED <<df_links, i, link, text, gpt_output, values, output_data, progress, callVars>>

\* line 173
ExtractCompany ==
    /\ pc = "company"
    /\ LET company == extract_company(text)
       IN  /\ meta' = [meta EXCEPT !.company = company]
           /\ Logged("company", text, company)
    /\ pc' = "sector"
    /\ UNCHANGED <<df_links, i, link, text, gpt_output, values, output_data, progress, callVars>>

\* line 174
GuessSector ==
    /\ pc = "sector"
    /\ LET sector == guess_sector(text)
       IN  /\ meta' = [meta EXCEPT !.sector = sector]
           /\ Logged("sector", text, sector)
    /\ pc' = "symbol"
    /\ UNCHANGED <<df_links, i, link, text, gpt_output, values, output_data, progress, callVars>>

\* line 175
ExtractSymbol ==
    /\ pc = "symbol"
    /\ LET symbol == extract_symbol(link.s, text)
       IN  /\ meta' = [meta EXCEPT !.symbol = symbol]
           /\ Logged("symbol", text, symbol)
    /\ pc' = "ann_type"
    /\ UNCHANGED <<df_links, i, link, text, gpt_output, values, output_data, progress, callVars>>

\* line 176
DetectType ==
    /\ pc = "ann_type"
    /\ LET ann_type == detect_announcement_type(text)
       IN  /\ meta' = [meta EXCEPT !.ann_type = ann_type]
           /\ Logged("ann_type", text, ann_type)
    /\ pc' = "llm"
    /\ UNCHANGED <<df_links, i, link, text, gpt_output, values, output_data, progress, callVars>>

\* line 178
CallLLM ==
    /\ pc = "llm"
    /\ \E llm \in LLMOutcomes :
          LET answer == generate_2l_format(text, llm)
          IN  /\ gpt_output' = answer
              /\ Logged("llm", Prompt(text), [raise |-> llm.raise, value |-> answer])
    /\ pc' = "parse"
    /\ UNCHANGED <<df_links, i, link, text, meta, values, output_data, progress, callVars>>

\* the response never parsed: the row is assembled from the values at hand
Parse_Skipped ==
    /\ pc = "parse"
    /\ pc' = "append"
    /\ UNCHANGED <<df_links, i, link, text, meta, gpt_output, values, output_data, progress, log, callVars>>

\* line 179
Parse ==
    /\ pc = "parse"
    /\ LET parsed == parse_2l(gpt_output)
       IN  /\ values' = parsed
           /\ Logged("parse", gpt_output, parsed)
    /\ pc' = "append"
    /\ UNCHANGED <<df_links, i, link, text, meta, gpt_output, output_data, progress, callVars>>

\* line 181: the row of a link whose text was summarised
RowOf(l, m, v) == <<l, m.symbol, m.company, m.sector, m.date, m.ann_type>> \o v

\* line 182: the numerator of (i+1)/len(df_links), i being the row's 0-based label
ProgressAfter(row) == row

\* lines 181-183
AppendRow ==
    /\ pc = "append"
    /\ output_data' = Append(output_data, RowOf(link, meta, values))
    /\ progress' = ProgressAfter(i)
    /\ log' = log \o <<[op |-> "append", row |-> i, arg |-> RowOf(link, meta, values), res |-> <<>>],
                       [op |-> "progress", row |-> i, arg |-> ProgressAfter(i), res |-> <<>>]>>
    /\ pc' = "loop"
    /\ UNCHANGED <<df_links, i, link, text, meta, gpt_output, values, callVars>>

\* lines 185-190: the loop is over; pd.DataFrame raises unless every row has as
\* many fields as there are columns
Finish ==
    /\ pc = "loop"
    /\ i = Len(df_links)
    /\ pc' = IF \A k \in 1..Len(output_data) : Len(output_data[k]) = Len(Columns)
             THEN "done" ELSE "crashed"
    /\ UNCHANGED <<df_links, i, link, text, meta, gpt_output, values, output_data, progress, log, callVars>>

Next ==
    \/ Click
    \/ NextRow
    \/ Fetch
    \/ ErrorRow
    \/ ExtractDate
    \/ ExtractCompany
    \/ GuessSector
    \/ ExtractSymbol
    \/ DetectType
    \/ CallLLM
    \/ Parse
    \/ AppendRow
    \/ Finish

Spec == Init /\ [][Next]_vars

----------------------------------------------------------------------------
(* Properties of the extraction run *)

Entries(op, k) == {j \in 1..Len(log) : log[j].op = op /\ log[j].row = k}

\* the operations performed for row k, in the order they were performed
RowOps(k) ==
    LET own == SelectSeq(log, LAMBDA e : e.row = k)
    IN  [j \in 1..Len(own) |-> own[j].op]

\* what the fetch of row k returned, and what the LLM call for it returned
FetchOf(k) == log[CHOOSE j \in Entries("fetch", k) : TRUE].res

LLMOf(k) == log[CHOOSE j \in Entries("llm", k) : TRUE].res

Heuristics == {"date", "company", "sector", "symbol", "ann_type"}

LoopOver == pc = "done" \/ (pc = "loop" /\ i = Len(df_links))

(* C1: when the loop over a table of N rows is over, output_data holds N rows, *)
(* the k-th with the k-th input link as its Link field, each of 12 fields,     *)
(* whatever failed on the way; the table is built without an exception.        *)
OneRowPerLink ==
    /\ pc # "crashed"
    /\ LoopOver =>
          /\ Len(output_data) = Len(df_links)
          /\ \A k \in 1..Len(df_links) :
                /\ output_data[k][1] = df_links[k]
                /\ Len(output_data[k]) = 12

\* a run over a two-row table: the first fetch fails, the second row is summarised
MixedRunDone ==
    /\ pc = "done"
    /\ Len(df_links) = 2
    /\ output_data[1] = ErrorRowOf(df_links[1])
    /\ Entries("llm", 2) # {}
    /\ ~LLMOf(2).raise

(* C4: no retry: over a whole run every row's link is fetched exactly once and *)
(* the LLM is called at most once for it, exactly once when the fetch          *)
(* succeeded, that is when it returned text of the document.                   *)
NoRetry ==
    pc = "done" =>
        \A k \in 1..Len(df_links) :
            /\ Cardinality(Entries("fetch", k)) = 1
            /\ Cardinality(Entries("llm", k)) <= 1
            /\ FetchOf(k).extracted => Cardinality(Entries("llm", k)) = 1

(* C5 as claimed: for a row whose fetch succeeds, the regex heuristics are     *)
(* applied after the LLM was called and its response parsed.                   *)
HeuristicsAfterLLM ==
    \A j \in 1..Len(log) :
        (log[j].op \in Heuristics /\ FetchOf(log[j].row).extracted) =>
            /\ \E a \in Entries("llm", log[j].row) : a < j
            /\ \E a \in Entries("parse", log[j].row) : a < j

StageOrder == <<"fetch", "date", "company", "sector", "symbol", "ann_type",
                "llm", "parse", "append", "progress">>

ErrorOrder == <<"fetch", "append">>

(* C5: the stages of a row happen in the order fetch, regex heuristics (date,  *)
(* company, sector, symbol, announcement type), LLM call on the prompt built   *)
(* from the fetched text, parse of the LLM's answer, append; all of them when  *)
(* the fetched text does not start with "Error", only fetch and append when    *)
(* it does.                                                                    *)
StagesInOrder ==
    \A k \in 1..i :
        /\ IF Entries("fetch", k) = {} THEN k = i /\ pc = "fetch" /\ RowOps(k) = <<>>
           ELSE IF startswith(FetchOf(k).value, STR_Error)
           THEN startswith(ErrorOrder, RowOps(k))
           ELSE startswith(StageOrder, RowOps(k))
        /\ \A j \in Entries("llm", k) : log[j].arg = Prompt(FetchOf(k).value)
        /\ \A j \in Entries("parse", k) : log[j].arg = LLMOf(k).value
        /\ k <= Len(output_data) => RowOps(k) \in {StageOrder, ErrorOrder}

\* a row went through every stage and its LLM call answered
FullRowDone ==
    /\ pc = "done"
    /\ \E k \in 1..Len(df_links) :
          /\ RowOps(k) = StageOrder
          /\ ~LLMOf(k).raise
          /\ output_data[k][7] # <<>>

(* C6: rows are processed one at a time: the operations of the log are grouped *)
(* by row in input order, nothing is done for row k+1 before the row of k is   *)
(* appended, and at most the row i is without its output row.                  *)
OneRowAtATime ==
    /\ \A a, b \in 1..Len(log) : a < b => log[a].row <= log[b].row
    /\ \A j \in 1..Len(log) :
          log[j].row > 1 => \E a \in Entries("append", log[j].row - 1) : a < j
    /\ IF pc \in {"idle", "loop", "done"} THEN Len(output_data) = i
       ELSE Len(output_data) = i - 1

\* the second row has been fetched; the first one, summarised, is in output_data
SecondRowStarted ==
    /\ pc = "check"
    /\ i = 2
    /\ Len(output_data) = 1
    /\ Entries("llm", 1) # {}

(* C7: a row whose fetched text starts with "Error" is appended as the link,   *)
(* three "Unknown", and eight "Error"; the LLM is not called for it and no     *)
(* heuristic is applied to it; the run goes on with the next row.              *)
ErrorRowContract ==
    /\ \A k \in 1..Len(output_data) :
          startswith(FetchOf(k).value, STR_Error) =>
              /\ output_data[k] = <<df_links[k], STR_Unknown, STR_Unknown, STR_Unknown,
                                    STR_Error, STR_Error, STR_Error, STR_Error,
                                    STR_Error, STR_Error, STR_Error, STR_Error>>
              /\ Entries("llm", k) = {}
              /\ \A j \in 1..Len(log) : log[j].row = k => log[j].op \notin Heuristics
    /\ pc \in {"company", "sector", "symbol", "ann_type", "llm", "parse", "append"} =>
          ~startswith(text, STR_Error)
    /\ pc = "done" => \A k \in 1..Len(df_links) : Entries("fetch", k) # {}
    /\ pc # "crashed"

\* the page of the first row reads "Error 404"; the second row is summarised
ErrorPageThenNext ==
    /\ pc = "done"
    /\ Len(df_links) = 2
    /\ FetchOf(1) = [raised |-> FALSE, value |-> TXT_NotFound, extracted |-> TRUE]
    /\ output_data[1] = ErrorRowOf(df_links[1])
    /\ Entries("llm", 2) # {}

(* C8: a failing LLM call does not abort the batch: generate_2l_format returns *)
(* "Error: ..." and the row is appended with the metadata computed from the    *)
(* fetched text and the six fields parsed from that string, empty where no     *)
(* line of it starts with the field's number; the later rows are processed.    *)
LLMFailureKeepsRow ==
    /\ \A k \in 1..i :
          (Entries("llm", k) # {} /\ LLMOf(k).raise) =>
              /\ startswith(LLMOf(k).value, STR_ErrorColon)
              /\ k <= Len(output_data) => SubSeq(output_data[k], 7, 12) = parse_2l(LLMOf(k).value)
    \* the row just appended
    /\ (pc = "loop" /\ i >= 1 /\ Entries("llm", i) # {} /\ LLMOf(i).raise) =>
          /\ Len(output_data) = i
          /\ \E today \in Todays :
                SubSeq(output_data[i], 1, 6) =
                    <<df_links[i],
                      extract_symbol(df_links[i].s, FetchOf(i).value),
                      extract_company(FetchOf(i).value),
                      guess_sector(FetchOf(i).value),
                      extract_date_from_url(df_links[i].s, today),
                      detect_announcement_type(FetchOf(i).value)>>
          /\ \A f \in 1..6 :
                LinesFor(LLMOf(i).value, f) = {} => output_data[i][6 + f] = <<>>
    /\ pc = "done" => Len(output_data) = Len(df_links)
    /\ pc # "crashed"

\* the LLM call of the first row raises with a two-line message whose second
\* line starts with "2."; the second row is still processed
LLMFailedThenNext ==
    /\ pc = "done"
    /\ Len(df_links) = 2
    /\ Entries("llm", 1) # {}
    /\ LLMOf(1).raise
    /\ output_data[1][2] = <<"A","B","C">>
    /\ output_data[1][7] = <<>>
    /\ output_data[1][8] = <<"r","e","t","r","y">>
    /\ Entries("fetch", 2) # {}
    /\ Len(output_data) = 2

(* C10: the progress indicator never decreases during a run, and when a run    *)
(* over a non-empty table reaches "Extraction complete" it stands at 100%.     *)
ProgressCompletes ==
    /\ \A a, b \in 1..Len(log) :
          (a < b /\ log[a].op = "progress" /\ log[b].op = "progress") => log[a].arg <= log[b].arg
    /\ \A a \in 1..Len(log) : log[a].op = "progress" => log[a].arg >= 0
    /\ (pc = "done" /\ Len(df_links) > 0) => progress = Len(df_links)

----------------------------------------------------------------------------
(* One call of parse_2l on a bounded response. *)

MaxLines == 2

Heads == {<<>>, <<"1">>, <<"2">>, <<"3">>, <<"4">>, <<"5">>, <<"6">>, <<"7">>, <<"1","0">>}

Dots == {<<>>, <<".">>}

Rests == {<<>>, <<" ","2",".","b"," ">>}

Indented == {<<" ","1","."," ","c">>, <<"\t","3",".","d","\r">>}

\* the lines a response is made of: optional number, optional dot, a rest; or an
\* indented numbered line
ResponseLines == {h \o d \o r : h \in Heads, d \in Dots, r \in Rests} \cup Indented

RECURSIVE JoinLines(_)
JoinLines(ls) ==
    IF Len(ls) = 0 THEN <<>>
    ELSE IF Len(ls) = 1 THEN ls[1]
    ELSE ls[1] \o <<"\n">> \o JoinLines(Tail(ls))

Responses == {JoinLines(ls) : ls \in UNION {[1..n -> ResponseLines] : n \in 0..MaxLines}}

RunIdle ==
    /\ df_links = <<>>
    /\ pc = "idle"
    /\ i = 0
    /\ link = <<>>
    /\ text = <<>>
    /\ meta = NoMeta
    /\ gpt_output = <<>>
    /\ values = <<>>
    /\ output_data = <<>>
    /\ progress = 0
    /\ log = <<>>

InitParse ==
    /\ RunIdle
    /\ phase = "args"
    /\ args \in {[response |-> r] : r \in Responses}
    /\ ret = <<>>

CallParse ==
    /\ phase = "args"
    /\ phase' = "returned"
    /\ ret' = parse_2l(args.response)
    /\ UNCHANGED <<args, runVars>>

NextParse == CallParse

SpecParse == InitParse /\ [][NextParse]_vars

(* C3: parse_2l returns exactly six values; for each k in 1..6, field k is the  *)
(* stripped text after the first "." of the last line whose stripped form      *)
(* starts with "k.", and is empty when no line starts with "k."; so no line    *)
(* is ever assigned to a field other than the one its prefix names.            *)
ParseMapsByPrefix ==
    phase = "returned" =>
        /\ Len(ret) = 6
        /\ \A k \in 1..6 :
              LET named == LinesFor(args.response, k)
              IN  IF named = {} THEN ret[k] = <<>>
                  ELSE ret[k] = strip(partition(strip(split(args.response)[Largest(named)])))

\* two lines carry the same number with different texts, the later one is kept,
\* and a field no line names stays empty
ParseLastLineWins ==
    /\ phase = "returned"
    /\ \E k \in 1..6 :
          /\ Cardinality(LinesFor(args.response, k)) = 2
          /\ ret[k] # <<>>
          /\ ret[k] # strip(partition(strip(
                 split(args.response)[Smallest(LinesFor(args.response, k))])))
    /\ \E k \in 1..6 : LinesFor(args.response, k) = {} /\ ret[k] = <<>>

----------------------------------------------------------------------------
(* One call of fetch_clean_text on a bounded URL and environment. *)

Fill(n) == [k \in 1..n |-> "a"]

FetchUrls == LinkCells \cup {StrCell(<<"/","a",".","p","d","f">>)}

FailSteps == {"none", "get", "write", "open", "read", "parse"}

PageSets == {<<>>, <<<<>>>>, <<TXT_Filing>>, <<TXT_Erratum>>, <<Fill(MaxText)>>,
             <<Fill(MaxText - 1), <<"y", "z">>>>, <<Fill(MaxText + 1)>>}

HtmlTexts == {<<>>, TXT_NotFound, TXT_Filing, Fill(MaxText + 1)}

FetchEnvs == {[fail |-> f, msg |-> <<"t","i","m","e","d"," ","o","u","t">>, pages |-> p, html |-> h] :
                 f \in FailSteps, p \in PageSets, h \in HtmlTexts}

InitFetch ==
    /\ RunIdle
    /\ phase = "args"
    /\ args \in {[url |-> u, env |-> e] : u \in FetchUrls, e \in FetchEnvs}
    /\ ret = <<>>

CallFetch ==
    /\ phase = "args"
    /\ phase' = "returned"
    /\ ret' = fetch_clean_text(args.url, args.env)
    /\ UNCHANGED <<args, runVars>>

NextFetch == CallFetch

SpecFetch == InitFetch /\ [][NextFetch]_vars

\* the text the download holds: the pages of a PDF, or the text of the HTML page
SourceText(a) ==
    IF endswith(lower(a.url.s), STR_DotPdf) THEN Concat(a.env.pages) ELSE a.env.html

(* C2: whatever the URL and whatever the download, the PDF extraction or the   *)
(* HTML parsing do, fetch_clean_text returns instead of raising, and returns   *)
(* either at most 4000 characters of the document's text or a string that      *)
(* begins with "Error".                                                        *)
FetchReturnsTextOrError ==
    phase = "returned" =>
        /\ ~ret.raised
        /\ \/ startswith(ret.value, STR_Error)
           \/ /\ Len(ret.value) <= MaxText
              /\ startswith(SourceText(args), ret.value)

\* a page read of a PDF raises and the caller gets the error string
FetchErrorReturned ==
    /\ phase = "returned"
    /\ args.url = StrCell(URL_Pdf)
    /\ args.env.fail = "read"
    /\ ret = [raised |-> FALSE,
              value |-> STR_ErrorFetching \o URL_Pdf \o STR_Colon \o args.env.msg]

----------------------------------------------------------------------------
(* One call of extract_symbol on a bounded URL and text. *)

MaxSegments == 3

UrlSegments == {<<"/">>, <<"_">>, <<"A","B">>, <<"A","B","C","D","E","F","G","H","I","J","K">>, <<"/","c","o","m","p","a","n","i","e","s","/">>, <<"/","Q","_">>, <<"x">>}

SymbolUrls == {Concat(ss) : ss \in UNION {[1..n -> UrlSegments] : n \in 0..MaxSegments}}

SymbolTexts == {<<>>, <<"B","S","E",":"," ","T","S","L">>, <<"o","n"," ","B","S","E"," ","\n","A","B","C","D","E","F","G","H","I","J","K","L","M">>, <<"N","S","E",":"," ","A","B">>, <<"B","S","E",":">>}

InitSymbol ==
    /\ RunIdle
    /\ phase = "args"
    /\ args \in {[url |-> u, text |-> t] : u \in SymbolUrls, t \in SymbolTexts}
    /\ ret = <<>>

CallSymbol ==
    /\ phase = "args"
    /\ phase' = "returned"
    /\ ret' = extract_symbol(args.url, args.text)
    /\ UNCHANGED <<args, runVars>>

NextSymbol == CallSymbol

SpecSymbol == InitSymbol /\ [][NextSymbol]_vars

(* C9: extract_symbol takes the 1 to 10 uppercase letters between "/" and "_"  *)
(* of the URL when there are such; otherwise the uppercase letters after       *)
(* "/companies/" in the URL; only when the URL gives neither, the letters      *)
(* after "BSE:" or "BSE " in the text; and "Unknown" only when none matches.   *)
SymbolPriority ==
    phase = "returned" =>
        LET a == SymbolBeforeUnderscore(args.url)
            b == SymbolAfterCompanies(args.url)
            c == SymbolAfterBSE(args.text)
        IN  /\ a # <<>> => ret = a
            /\ a = <<>> /\ b # <<>> => ret = b
            /\ a = <<>> /\ b = <<>> /\ c # <<>> => ret = c
            /\ ret = STR_Unknown <=> (a = <<>> /\ b = <<>> /\ c = <<>>)
            /\ ret # STR_Unknown => /\ Len(ret) \in 1..MaxSymbol
                                    /\ \A k \in 1..Len(ret) : IsUpper(ret[k])

\* the three patterns all match, with three different results, and the first wins
SymbolAllThreeMatch ==
    /\ phase = "returned"
    /\ SymbolBeforeUnderscore(args.url) # <<>>
    /\ SymbolAfterCompanies(args.url) # <<>>
    /\ SymbolAfterBSE(args.text) # <<>>
    /\ SymbolBeforeUnderscore(args.url) # SymbolAfterCompanies(args.url)
    /\ SymbolAfterCompanies(args.url) # SymbolAfterBSE(args.text)
    /\ ret = SymbolBeforeUnderscore(args.url)

====
